---------------------------- MODULE Spec2Model ----------------------------
(***************************************************************************)
(* dupefinder: the duplicate-detection engine DupeFinder (src/src/lib.rs)  *)
(* over a small filesystem.  The engine's fields are the record `self`;    *)
(* run() and run_for_file() are unfolded into the steps of their loops.    *)
(***************************************************************************)
EXTENDS Integers, Sequences, FiniteSets, TLC

(***************************************************************************)
(* The filesystem.  Paths are the strings the engine compares; a file's    *)
(* content is a sequence of bytes and its size the length of it.           *)
(***************************************************************************)
Dirs == {"d1", "d1/d2"}

Files == {"d1/a", "d1/b", "d1/d2/c", "d1/d2/e"}

\* a path that names nothing on disk
Missing == "base/missing"

Contents == {<<>>, <<1>>, <<2>>, <<1, 1>>}

\* longest root list an engine is constructed with
MaxRoots == 2

VARIABLES
    content,            \* filesystem: file path -> bytes
    fault,              \* filesystem: the one read that fails, if any
    fingerprinter,      \* the digest get_file_hash gives each byte content
    self,               \* the DupeFinder struct
    pc,                 \* "idle" | "walk" | "list" | "resolve"
    op,                 \* the public call in progress or last returned
    target,             \* argument of the last run_for_file call
    check_dirs,         \* build_directories: rest of the current wave
    next_directories,   \* build_directories: the next wave
    cur,                \* build_directory_contents: the directory being read
    pending,            \* build_directory_contents: entries not yet seen
    subdirs,            \* build_directory_contents: subdirectories found
    dupes,              \* run / run_for_file: the result map being built
    todo,               \* check_duplicates: candidate sizes not yet iterated
    ret,                \* the value the last call returned
    hashed,             \* get_file_hash calls in this call, per path
    listed,             \* read_dir calls in this call, per directory
    indexed,            \* insert_size calls in this call, per path
    failed,             \* whether a read failed in this call
    discovered,         \* the paths insert_size was called on, in call order
    prev                \* history: the call before this run() and its outcome

vars == <<content, fault, self, pc, op, target, check_dirs, next_directories,
          cur, pending, subdirs, dupes, todo, ret, hashed, listed, indexed,
          failed, fingerprinter, discovered, prev>>

fsvars == <<content, fault, fingerprinter>>

----------------------------------------------------------------------------
(* Maps (HashMap) as functions with a finite domain. *)

EmptyMap == [k \in {} |-> k]

Put(m, k, v) == [x \in (DOMAIN m) \cup {k} |-> IF x = k THEN v ELSE m[x]]

Range(f) == {f[x] : x \in DOMAIN f}

SeqSet(s) == {s[i] : i \in 1..Len(s)}

\* Option<T>: <<>> is None, <<v>> is Some(v)
None == <<>>

Some(v) == <<v>>

----------------------------------------------------------------------------
(* The external collaborators: directory lister, metadata, fingerprinter. *)

NoFault == [kind |-> "none", at |-> ""]

Faults ==
    {NoFault}
    \cup {[kind |-> "unreadable", at |-> f] : f \in Files}
    \cup {[kind |-> "nometa", at |-> f] : f \in Files}
    \cup {[kind |-> "unlistable", at |-> d] : d \in Dirs}

\* Sha256 of the bytes, formatted {:X}: one digest per byte content
Sha256Table(bytes) ==
    CASE bytes = <<>>     -> "E3B0C442"
      [] bytes = <<1>>    -> "4BF5122F"
      [] bytes = <<2>>    -> "DBC1B4C9"
      [] bytes = <<1, 1>> -> "9A1F3C07"

\* the fingerprinter that is Sha256
Sha256 == [bytes \in Contents |-> Sha256Table(bytes)]

\* a fingerprinter that gives the one-byte content <<1>> and the two-byte
\* content <<1, 1>> the same digest
Colliding == [Sha256 EXCEPT ![<<1, 1>>] = Sha256Table(<<1>>)]

\* io::copy into the hasher, formatted {:X}
Sha256Hex(bytes) == fingerprinter[bytes]

\* generate_file_hash without the io::copy: the digest of no bytes at all
generate_file_hash_unfed(path) ==
    IF path \notin Files \/ fault = [kind |-> "unreadable", at |-> path]
    THEN [ok |-> FALSE, hash |-> ""]
    ELSE [ok |-> TRUE, hash |-> Sha256Hex(<<>>)]

\* generate_file_hash: File::open, io::copy, format
generate_file_hash(path) ==
    IF path \notin Files \/ fault = [kind |-> "unreadable", at |-> path]
    THEN [ok |-> FALSE, hash |-> ""]
    ELSE [ok |-> TRUE, hash |-> Sha256Hex(content[path])]

\* fs::metadata / DirEntry::metadata
Metadata(path) ==
    IF path \in Files
    THEN [len |-> Len(content[path]), is_file |-> TRUE, is_dir |-> FALSE]
    ELSE [len |-> 3, is_file |-> FALSE, is_dir |-> TRUE]

\* fs::read_dir: the entries of a directory, joined to the directory's path
Entries(directory) ==
    CASE directory = "d1"    -> {"d1/a", "d1/b", "d1/d2"}
      [] directory = "d1/d2" -> {"d1/d2/c", "d1/d2/e"}
      [] OTHER               -> {}

ReadDirFails(directory) ==
    directory \notin Dirs \/ fault = [kind |-> "unlistable", at |-> directory]

NoData == [path |-> "", len |-> 0, size |-> 0, is_file |-> FALSE, is_dir |-> FALSE]

MetadataFails(path) ==
    path \notin Files \cup Dirs \/ fault = [kind |-> "nometa", at |-> path]

\* DirData::new and DirData::new_from_path
DirDataNew(path) ==
    IF MetadataFails(path)
    THEN [ok |-> FALSE, data |-> NoData]
    ELSE LET meta == Metadata(path)
         IN [ok |-> TRUE,
             data |-> [path |-> path, len |-> meta.len, size |-> meta.len,
                       is_file |-> meta.is_file, is_dir |-> meta.is_dir]]

NoFindFile == [data |-> NoData, hash |-> ""]

\* FindFile::new with the hash error swallowed instead of returned by `?`
FindFileNew_swallows_hash_error(path) ==
    LET hash == generate_file_hash(path)
        data == DirDataNew(path)
    IN IF ~data.ok
       THEN [ok |-> FALSE, find_file |-> NoFindFile]
       ELSE [ok |-> TRUE, find_file |-> [data |-> data.data, hash |-> hash.hash]]

\* FindFile::new: the hash first, then the metadata; either failure is the error
FindFileNew(path) ==
    LET hash == generate_file_hash(path)
        data == DirDataNew(path)
    IN IF ~hash.ok \/ ~data.ok
       THEN [ok |-> FALSE, find_file |-> NoFindFile]
       ELSE [ok |-> TRUE, find_file |-> [data |-> data.data, hash |-> hash.hash]]

----------------------------------------------------------------------------
(* The engine's own functions. *)

\* DupeFinder::new / new_recursive
NewDupeFinder(directories, recursive) ==
    [directories |-> directories,
     file_sizes |-> EmptyMap,
     checked_directories |-> {},
     duplicate_file_sizes |-> {},
     follow_subdirs |-> recursive,
     find_file |-> None]



\* initialize that keeps the target of the earlier run_for_file
initialize_keeps_target(s) ==
    IF Cardinality(s.checked_directories) > 0
    THEN [s EXCEPT !.file_sizes = EmptyMap,
                   !.checked_directories = {},
                   !.duplicate_file_sizes = {}]
    ELSE s

\* initialize that keeps the Size Index and the candidate sizes
initialize_keeps_index(s) ==
    IF Cardinality(s.checked_directories) > 0
    THEN [s EXCEPT !.checked_directories = {}, !.find_file = None]
    ELSE s

\* initialize: reset, but only when a directory was checked before
initialize(s) ==
    IF Cardinality(s.checked_directories) > 0
    THEN [s EXCEPT !.file_sizes = EmptyMap,
                   !.checked_directories = {},
                   !.duplicate_file_sizes = {},
                   !.find_file = None]
    ELSE s

\* build_directories without the `continue` on a checked directory
never_checked(s, directory) == FALSE

\* build_directories: `self.checked_directories.contains(&directory)`
already_checked(s, directory) == directory \in s.checked_directories

\* insert_find_file_size
insert_find_file_size(s) ==
    IF s.find_file # None
    THEN [s EXCEPT !.file_sizes =
            Put(@, s.find_file[1].data.size, <<s.find_file[1].data>>)]
    ELSE s

\* should_insert_size without `if data.size == 0`
should_insert_size_keeps_empty(s, data) ==
    IF ~data.is_file THEN FALSE
    ELSE IF s.find_file # None /\ data.size # s.find_file[1].data.size THEN FALSE
    ELSE IF s.find_file # None /\ data.path = s.find_file[1].data.path THEN FALSE
    ELSE TRUE

\* should_insert_size without `if data.path == find_file.data.path`
should_insert_size_keeps_target(s, data) ==
    IF ~data.is_file THEN FALSE
    ELSE IF data.size = 0 THEN FALSE
    ELSE IF s.find_file # None /\ data.size # s.find_file[1].data.size THEN FALSE
    ELSE TRUE

\* should_insert_size without `if data.size != find_file.data.size`
should_insert_size_any_size(s, data) ==
    IF ~data.is_file THEN FALSE
    ELSE IF data.size = 0 THEN FALSE
    ELSE IF s.find_file # None /\ data.path = s.find_file[1].data.path THEN FALSE
    ELSE TRUE

\* should_insert_size: the returned bool
should_insert_size(s, data) ==
    IF ~data.is_file THEN FALSE
    ELSE IF data.size = 0 THEN FALSE
    ELSE IF s.find_file # None /\ data.size # s.find_file[1].data.size THEN FALSE
    ELSE IF s.find_file # None /\ data.path = s.find_file[1].data.path THEN FALSE
    ELSE TRUE

\* should_insert_size pushing a directory whatever follow_subdirs says
pushed_subdirs_always(s, data, subs) ==
    IF ~data.is_file /\ data.is_dir
    THEN Append(subs, data.path)
    ELSE subs

\* should_insert_size: what it pushes to subdirs
pushed_subdirs(s, data, subs) ==
    IF ~data.is_file /\ s.follow_subdirs /\ data.is_dir
    THEN Append(subs, data.path)
    ELSE subs


\* insert_size putting the new record at the front of its list
insert_size_prepends(s, data) ==
    LET len == data.len
    IN IF len \in DOMAIN s.file_sizes
       THEN [s EXCEPT !.file_sizes = [@ EXCEPT ![len] = <<data>> \o @],
                      !.duplicate_file_sizes = @ \cup {len}]
       ELSE [s EXCEPT !.file_sizes = Put(@, len, <<data>>)]

\* insert_size marking the size as a candidate on its first record too
insert_size_marks_first(s, data) ==
    LET len == data.len
    IN IF len \in DOMAIN s.file_sizes
       THEN [s EXCEPT !.file_sizes = [@ EXCEPT ![len] = Append(@, data)],
                      !.duplicate_file_sizes = @ \cup {len}]
       ELSE [s EXCEPT !.file_sizes = Put(@, len, <<data>>),
                      !.duplicate_file_sizes = @ \cup {len}]

\* insert_size
insert_size(s, data) ==
    LET len == data.len
    IN IF len \in DOMAIN s.file_sizes
       THEN [s EXCEPT !.file_sizes = [@ EXCEPT ![len] = Append(@, data)],
                      !.duplicate_file_sizes = @ \cup {len}]
       ELSE [s EXCEPT !.file_sizes = Put(@, len, <<data>>)]

\* the loop of check_path_duplicates leaving the bucket at the first record
\* whose hash fails, instead of going on with the next record
RECURSIVE check_from_breaks(_, _, _, _)
check_from_breaks(paths, i, known_hashes, results) ==
    IF i > Len(paths) THEN results
    ELSE LET data == paths[i]
             full_path == data.path
             file_hash == generate_file_hash(full_path)
         IN IF ~file_hash.ok
            THEN results
            ELSE LET h == file_hash.hash
                     exists == h \in DOMAIN known_hashes
                     results2 ==
                        IF ~exists THEN results
                        ELSE IF h \in DOMAIN results
                        THEN [results EXCEPT ![h].files = Append(@, full_path)]
                        ELSE Put(results, h,
                                 [hash |-> h,
                                  files |-> <<known_hashes[h], full_path>>,
                                  size |-> data.len])
                 IN check_from_breaks(paths, i + 1,
                                      Put(known_hashes, h, full_path), results2)

\* check_path_duplicates: the loop over the records from position i on
RECURSIVE check_from(_, _, _, _)
check_from(paths, i, known_hashes, results) ==
    IF i > Len(paths) THEN results
    ELSE LET data == paths[i]
             full_path == data.path
             file_hash == generate_file_hash(full_path)
         IN IF ~file_hash.ok
            THEN check_from(paths, i + 1, known_hashes, results)
            ELSE LET h == file_hash.hash
                     exists == h \in DOMAIN known_hashes
                     results2 ==
                        IF ~exists THEN results
                        ELSE IF h \in DOMAIN results
                        THEN [results EXCEPT ![h].files = Append(@, full_path)]
                        ELSE Put(results, h,
                                 [hash |-> h,
                                  files |-> <<known_hashes[h], full_path>>,
                                  size |-> data.len])
                 IN check_from(paths, i + 1, Put(known_hashes, h, full_path),
                               results2)

\* check_path_duplicates: position of the first record that is hashed
first_checked(s) == IF s.find_file # None THEN 2 ELSE 1

\* check_path_duplicates skipping the first record in every mode
check_path_duplicates_skips_first(s, paths, results) ==
    IF s.find_file # None
    THEN check_from(paths, 2,
                    Put(EmptyMap, s.find_file[1].hash, s.find_file[1].data.path),
                    results)
    ELSE check_from(paths, 2, EmptyMap, results)

\* check_path_duplicates without the insert of the target's hash
check_path_duplicates_unseeded(s, paths, results) ==
    IF s.find_file # None
    THEN check_from(paths, 2, EmptyMap, results)
    ELSE check_from(paths, 1, EmptyMap, results)

\* check_path_duplicates
check_path_duplicates(s, paths, results) ==
    IF s.find_file # None
    THEN check_from(paths, 2,
                    Put(EmptyMap, s.find_file[1].hash, s.find_file[1].data.path),
                    results)
    ELSE check_from(paths, 1, EmptyMap, results)

----------------------------------------------------------------------------
(* The state after construction, over every filesystem of the bounds. *)

RootLists == UNION {[1..n -> Dirs] : n \in 0..MaxRoots}

NoRet == [kind |-> "none", map |-> EmptyMap, group |-> None]

ZeroCount(S) == [x \in S |-> 0]

\* the history of an engine no call was made on
NoPrev(tag) ==
    [after |-> tag, result |-> EmptyMap, sizes |-> EmptyMap, candidates |-> {}]

\* a result map with each group's paths as a set
ResultSets(map) ==
    [h \in DOMAIN map |->
        [hash |-> map[h].hash, size |-> map[h].size,
         files |-> SeqSet(map[h].files), count |-> Len(map[h].files)]]

\* a Size Index with each bucket's paths as a set
IndexSets(file_sizes) ==
    [k \in DOMAIN file_sizes |->
        [paths |-> {file_sizes[k][i].path : i \in 1..Len(file_sizes[k])},
         count |-> Len(file_sizes[k])]]

\* the files in a fixed order
FileOrder == <<"d1/a", "d1/b", "d1/d2/c", "d1/d2/e">>

\* The engine reads no byte's value: it compares lengths and digests only.
\* The one-byte contents <<1>> and <<2>> are therefore interchangeable, and
\* of two filesystems that differ by swapping them the one kept is the one
\* where <<2>> comes after a file that holds <<1>>.
Filesystems ==
    {c \in [Files -> Contents] :
        \A i \in 1..Len(FileOrder) :
            c[FileOrder[i]] = <<2>> =>
                \E j \in 1..(i - 1) : c[FileOrder[j]] = <<1>>}

\* the state after construction, for the given fingerprinters and faults;
\* history is the initial value of prev ("untracked": no history is kept)
Start(fingerprinters, faults, history) ==
    /\ content \in Filesystems
    /\ fault \in faults
    /\ fingerprinter \in fingerprinters
    /\ prev = NoPrev(history)
    /\ discovered = <<>>
    /\ \E directories \in RootLists, recursive \in BOOLEAN :
          self = NewDupeFinder(directories, recursive)
    /\ pc = "idle"
    /\ op = "none"
    /\ target = ""
    /\ check_dirs = <<>>
    /\ next_directories = <<>>
    /\ cur = ""
    /\ pending = {}
    /\ subdirs = <<>>
    /\ dupes = EmptyMap
    /\ todo = {}
    /\ ret = NoRet
    /\ hashed = ZeroCount(Files \cup {Missing})
    /\ listed = ZeroCount(Dirs)
    /\ indexed = ZeroCount(Files \cup Dirs)
    /\ failed = FALSE

Init == Start({Sha256}, Faults, "untracked")

----------------------------------------------------------------------------
(* run() and run_for_file(), step by step. *)

\* the paths run_for_file is called with: a file of each directory (the other
\* file of a directory is its mirror image) and a path that does not exist
Targets == {"d1/a", "d1/d2/c", Missing}

\* one more get_file_hash call on each of the paths
CountHashes(count, paths) ==
    [p \in DOMAIN count |-> IF p \in paths THEN count[p] + 1 ELSE count[p]]

\* what every public call starts with
EnterCall(name, path) ==
    /\ op' = name
    /\ target' = path
    /\ next_directories' = <<>>
    /\ cur' = ""
    /\ pending' = {}
    /\ subdirs' = <<>>
    /\ dupes' = EmptyMap
    /\ todo' = {}
    /\ listed' = ZeroCount(Dirs)
    /\ indexed' = ZeroCount(Files \cup Dirs)
    /\ discovered' = <<>>
    /\ prev' = IF prev.after = "untracked" THEN prev
               ELSE IF name = "run" /\ op = "run"
               THEN [after |-> "run",
                     result |-> ResultSets(ret.map),
                     sizes |-> IndexSets(self.file_sizes),
                     candidates |-> self.duplicate_file_sizes]
               ELSE IF name = "run"
               THEN NoPrev(IF ret.kind = "err" THEN "error" ELSE op)
               ELSE NoPrev("")

\* run: initialize, then build_directories begins
Run ==
    /\ pc = "idle"
    /\ self' = initialize(self)
    /\ pc' = "walk"
    /\ check_dirs' = self'.directories
    /\ ret' = NoRet
    /\ hashed' = ZeroCount(Files \cup {Missing})
    /\ failed' = FALSE
    /\ EnterCall("run", "")
    /\ UNCHANGED fsvars

\* run_for_file: initialize, FindFile::new succeeds, insert_find_file_size
RunForFile(path) ==
    /\ pc = "idle"
    /\ FindFileNew(path).ok
    /\ self' = insert_find_file_size(
                  [initialize(self) EXCEPT
                      !.find_file = Some(FindFileNew(path).find_file)])
    /\ pc' = "walk"
    /\ check_dirs' = self'.directories
    /\ ret' = NoRet
    /\ hashed' = CountHashes(ZeroCount(Files \cup {Missing}), {path})
    /\ failed' = FALSE
    /\ EnterCall("run_for_file", path)
    /\ UNCHANGED fsvars

\* run_for_file: initialize, then FindFile::new fails and `?` returns the error
RunForFileError(path) ==
    /\ pc = "idle"
    /\ ~FindFileNew(path).ok
    /\ self' = initialize(self)
    /\ pc' = "idle"
    /\ hashed' = CountHashes(ZeroCount(Files \cup {Missing}), {path})
    /\ failed' = TRUE
    /\ EnterCall("run_for_file", path)
    /\ check_dirs' = <<>>
    /\ ret' = [NoRet EXCEPT !.kind = "err"]
    /\ UNCHANGED fsvars


\* build_directories giving up the rest of the worklist when read_dir fails
VisitDirectory_stops_on_error ==
    /\ pc = "walk"
    /\ check_dirs # <<>>
    /\ LET directory == Head(check_dirs)
       IN IF already_checked(self, directory)
          THEN /\ check_dirs' = Tail(check_dirs)
               /\ UNCHANGED <<self, pc, cur, pending, listed, failed,
                              next_directories>>
          ELSE /\ self' = [self EXCEPT !.checked_directories = @ \cup {directory}]
               /\ listed' = [listed EXCEPT ![directory] = @ + 1]
               /\ IF ReadDirFails(directory)
                  THEN /\ failed' = TRUE
                       /\ check_dirs' = <<>>
                       /\ next_directories' = <<>>
                       /\ UNCHANGED <<pc, cur, pending>>
                  ELSE /\ pc' = "list"
                       /\ cur' = directory
                       /\ pending' = Entries(directory)
                       /\ check_dirs' = Tail(check_dirs)
                       /\ UNCHANGED <<failed, next_directories>>
    /\ UNCHANGED <<fsvars, prev, discovered, op, target, subdirs, dupes, todo,
                   ret, hashed, indexed>>

\* build_directories: one turn of `for directory in check_dirs`
VisitDirectory ==
    /\ pc = "walk"
    /\ check_dirs # <<>>
    /\ LET directory == Head(check_dirs)
       IN /\ check_dirs' = Tail(check_dirs)
          /\ IF already_checked(self, directory)
             THEN UNCHANGED <<self, pc, cur, pending, listed, failed>>
             ELSE /\ self' = [self EXCEPT !.checked_directories = @ \cup {directory}]
                  /\ listed' = [listed EXCEPT ![directory] = @ + 1]
                  /\ IF ReadDirFails(directory)
                     THEN /\ failed' = TRUE
                          /\ UNCHANGED <<pc, cur, pending>>
                     ELSE /\ pc' = "list"
                          /\ cur' = directory
                          /\ pending' = Entries(directory)
                          /\ UNCHANGED failed
    /\ UNCHANGED <<fsvars, prev, discovered, op, target, next_directories,
                   subdirs, dupes, todo, ret, hashed, indexed>>

\* build_directory_contents: one turn of `for path in paths`
VisitEntry(entry) ==
    /\ pc = "list"
    /\ entry \in pending
    /\ pending' = pending \ {entry}
    /\ LET got == DirDataNew(entry)
       IN IF ~got.ok
          THEN /\ failed' = TRUE
               /\ UNCHANGED <<self, subdirs, indexed, discovered>>
          ELSE /\ subdirs' = pushed_subdirs(self, got.data, subdirs)
               /\ IF should_insert_size(self, got.data)
                  THEN /\ self' = insert_size(self, got.data)
                       /\ indexed' = [indexed EXCEPT ![entry] = @ + 1]
                       /\ discovered' = Append(discovered, entry)
                  ELSE UNCHANGED <<self, indexed, discovered>>
               /\ UNCHANGED failed
    /\ UNCHANGED <<fsvars, prev, pc, op, target, check_dirs, next_directories,
                   cur, dupes, todo, ret, hashed, listed>>

\* build_directory_contents returns Ok(subdirs); build_directories appends them
FinishDirectory ==
    /\ pc = "list"
    /\ pending = {}
    /\ next_directories' = next_directories \o subdirs
    /\ subdirs' = <<>>
    /\ cur' = ""
    /\ pc' = "walk"
    /\ UNCHANGED <<fsvars, prev, discovered, self, op, target, check_dirs,
                   pending, dupes, todo, ret, hashed, listed, indexed,
                   failed>>

\* build_directories: `check_dirs = next_directories`, and the loop goes on
NextWave ==
    /\ pc = "walk"
    /\ check_dirs = <<>>
    /\ next_directories # <<>>
    /\ check_dirs' = next_directories
    /\ next_directories' = <<>>
    /\ UNCHANGED <<fsvars, prev, discovered, self, pc, op, target, cur,
                   pending, subdirs, dupes, todo, ret, hashed, listed,
                   indexed, failed>>

\* build_directories returns; check_duplicates starts over duplicate_file_sizes
EndWalk ==
    /\ pc = "walk"
    /\ check_dirs = <<>>
    /\ next_directories = <<>>
    /\ pc' = "resolve"
    /\ todo' = self.duplicate_file_sizes
    /\ UNCHANGED <<fsvars, prev, discovered, self, op, target, check_dirs,
                   next_directories, cur, pending, subdirs, dupes, ret,
                   hashed, listed, indexed, failed>>

\* the records of a bucket that check_path_duplicates hashes
HashedOf(s, paths) ==
    {paths[i].path : i \in first_checked(s)..Len(paths)}

\* check_duplicates: one turn of `for key in self.duplicate_file_sizes.iter()`
CheckDuplicates(key) ==
    /\ pc = "resolve"
    /\ key \in todo
    /\ todo' = todo \ {key}
    /\ IF key \in DOMAIN self.file_sizes
       THEN LET paths == self.file_sizes[key]
            IN /\ dupes' = check_path_duplicates(self, paths, dupes)
               /\ hashed' = CountHashes(hashed, HashedOf(self, paths))
               /\ failed' = (failed \/ \E p \in HashedOf(self, paths) :
                                          ~generate_file_hash(p).ok)
       ELSE UNCHANGED <<dupes, hashed, failed>>
    /\ UNCHANGED <<fsvars, prev, discovered, self, pc, op, target, check_dirs,
                   next_directories, cur, pending, subdirs, ret, listed,
                   indexed>>

\* run returns dupes
ReturnRun ==
    /\ pc = "resolve"
    /\ todo = {}
    /\ op = "run"
    /\ ret' = [kind |-> "map", map |-> dupes, group |-> None]
    /\ pc' = "idle"
    /\ UNCHANGED <<fsvars, prev, discovered, self, op, target, check_dirs,
                   next_directories, cur, pending, subdirs, dupes, todo,
                   hashed, listed, indexed, failed>>

\* run_for_file returns dupes.get(&find_file.hash)
ReturnForFile ==
    /\ pc = "resolve"
    /\ todo = {}
    /\ op = "run_for_file"
    /\ ret' = IF self.find_file # None /\ self.find_file[1].hash \in DOMAIN dupes
              THEN [kind |-> "some", map |-> EmptyMap,
                    group |-> Some(dupes[self.find_file[1].hash])]
              ELSE [kind |-> "nodup", map |-> EmptyMap, group |-> None]
    /\ pc' = "idle"
    /\ UNCHANGED <<fsvars, prev, discovered, self, op, target, check_dirs,
                   next_directories, cur, pending, subdirs, dupes, todo,
                   hashed, listed, indexed, failed>>

Next ==
    \/ Run
    \/ \E path \in Targets : RunForFile(path)
    \/ \E path \in Targets : RunForFileError(path)
    \/ VisitDirectory
    \/ \E entry \in pending : VisitEntry(entry)
    \/ FinishDirectory
    \/ NextWave
    \/ EndWalk
    \/ \E key \in todo : CheckDuplicates(key)
    \/ ReturnRun
    \/ ReturnForFile

Spec == Init /\ [][Next]_vars

\* the faults of the runs that keep a history: none, one unreadable file,
\* one unlistable directory
HistoryFaults ==
    {NoFault, [kind |-> "unreadable", at |-> "d1/b"],
     [kind |-> "unlistable", at |-> "d1/d2"]}

\* the same engine, with the history of each run() call recorded in prev
InitHistory == Start({Sha256}, HistoryFaults, "")

SpecHistory == InitHistory /\ [][Next]_vars

\* the same engine over a fingerprinter that may collide, with no fault
InitAnyDigest == Start({Sha256, Colliding}, {NoFault}, "untracked")

SpecAnyDigest == InitAnyDigest /\ [][Next]_vars

\* the steps inside a call: run() and run_for_file() are sequential code that
\* waits for nothing, so a step that can be taken is taken; when the caller
\* makes the next call is left open
Progress ==
    WF_vars(\/ VisitDirectory
            \/ \E entry \in pending : VisitEntry(entry)
            \/ FinishDirectory
            \/ NextWave
            \/ EndWalk
            \/ \E key \in todo : CheckDuplicates(key)
            \/ ReturnRun
            \/ ReturnForFile)

\* the faults of the runs checked for termination: none, and one of each
\* kind of failing read, the listing of the root d1 included
FairFaults ==
    {NoFault,
     [kind |-> "unreadable", at |-> "d1/b"],
     [kind |-> "nometa", at |-> "d1/d2/c"],
     [kind |-> "unlistable", at |-> "d1/d2"],
     [kind |-> "unlistable", at |-> "d1"]}

\* over the filesystems whose files are empty, one byte or two bytes long
InitFair ==
    /\ Start({Sha256}, FairFaults, "untracked")
    /\ \A f \in Files : content[f] # <<2>>

\* the engine whose calls run to their end
SpecFair == InitFair /\ [][Next]_vars /\ Progress

----------------------------------------------------------------------------
(* Vocabulary of the properties. *)

\* the directory a file is an entry of
DirOf(f) == CHOOSE d \in Dirs : f \in Entries(d)

Size(f) == Len(content[f])

Digest(f) == Sha256Hex(content[f])

\* a call has returned a result after walking (not the error of run_for_file)
Returned == pc = "idle" /\ ret.kind \in {"map", "some", "nodup"}

RunReturned == pc = "idle" /\ ret.kind = "map"

ForFileReturned == pc = "idle" /\ ret.kind \in {"some", "nodup"}

\* the Duplicate Groups the last call handed to its caller
ReturnedGroups ==
    IF pc # "idle" THEN {}
    ELSE IF ret.kind = "map" THEN Range(ret.map)
    ELSE IF ret.kind = "some" THEN {ret.group[1]}
    ELSE {}

\* the files of the directories the walk of this call visited
VisitedFiles == {f \in Files : DirOf(f) \in self.checked_directories}

\* the files of the visited directories with the size and digest of f
ClassOf(f) == {g \in VisitedFiles : Size(g) = Size(f) /\ Digest(g) = Digest(f)}

\* the non-empty visited files that have a duplicate among the visited files
Duplicated == {f \in VisitedFiles : Size(f) > 0 /\ Cardinality(ClassOf(f)) >= 2}

Distinct(s) == Cardinality(SeqSet(s)) = Len(s)

----------------------------------------------------------------------------
\* C1: when no listing, metadata read or fingerprint failed, the map run()
\* returns has exactly one group per (size, digest) class of two or more
\* non-empty files of the visited directories, holding exactly the paths of
\* that class, and no other key.
C1_RunReturnsTheClasses ==
    (RunReturned /\ ~failed) =>
        /\ DOMAIN ret.map = {Digest(f) : f \in Duplicated}
        /\ \A f \in Duplicated :
              LET group == ret.map[Digest(f)]
              IN /\ group.size = Size(f)
                 /\ group.hash = Digest(f)
                 /\ SeqSet(group.files) = ClassOf(f)
                 /\ Len(group.files) = Cardinality(ClassOf(f))

\* run() returned two groups at once, one of them for two files of one root
C1_Witness ==
    /\ RunReturned /\ ~failed
    /\ Cardinality(DOMAIN ret.map) = 2
    /\ \E h \in DOMAIN ret.map : SeqSet(ret.map[h].files) = {"d1/a", "d1/b"}

\* C2: every returned group has at least two paths, pairwise distinct, all of
\* the size and of the digest the group records, and run() returns it under
\* the key that is its hash field.
C2_GroupInvariant ==
    /\ \A group \in ReturnedGroups :
          /\ Len(group.files) >= 2
          /\ Distinct(group.files)
          /\ \A p \in SeqSet(group.files) :
                p \in Files /\ Size(p) = group.size /\ Digest(p) = group.hash
    /\ RunReturned => \A h \in DOMAIN ret.map : ret.map[h].hash = h

\* run_for_file returned a group of three paths
C2_Witness ==
    pc = "idle" /\ ret.kind = "some" /\ Len(ret.group[1].files) = 3

\* C3: two files of the same size and different content are never in the
\* same returned group.
C3_SameSizeIsNotEnough ==
    \A group \in ReturnedGroups :
        \A p, q \in SeqSet(group.files) \cap Files :
            Size(p) = Size(q) => content[p] = content[q]

\* a group was returned while a file of its size with other bytes was indexed
C3_Witness ==
    \E group \in ReturnedGroups :
        \E f \in Files :
            /\ indexed[f] = 1
            /\ Size(f) = group.size
            /\ content[f] # content[group.files[1]]
            /\ f \notin SeqSet(group.files)

\* C4: no path of a zero-byte file is in any group returned by run() or by
\* run_for_file(), a zero-byte target included.
C4_NoEmptyFileInAGroup ==
    \A group \in ReturnedGroups :
        \A p \in SeqSet(group.files) \cap Files : Size(p) # 0

\* run_for_file returned for a zero-byte target with a zero-byte file walked
C4_Witness ==
    /\ ForFileReturned
    /\ target \in Files /\ Size(target) = 0
    /\ \E f \in VisitedFiles : f # target /\ Size(f) = 0
    /\ ~failed

\* C5: a directory that is a root more than once, or a root and also found by
\* recursion, is read exactly once in a call, and none of its files is indexed
\* twice.
C5_DirectoryReadOnce ==
    /\ \A d \in Dirs : listed[d] <= 1
    /\ \A f \in Files : indexed[f] <= 1
    /\ Returned =>
          \A d \in SeqSet(self.directories) :
              d \in self.checked_directories /\ listed[d] = 1

\* a root that recursion found again: read once, its file indexed once
C5_Witness ==
    /\ RunReturned
    /\ self.directories = <<"d1", "d1/d2">>
    /\ self.follow_subdirs
    /\ listed["d1/d2"] = 1
    /\ indexed["d1/d2/c"] = 1

\* the records that are alone in their size bucket
Singletons ==
    {self.file_sizes[sz][1].path :
        sz \in {k \in DOMAIN self.file_sizes : Len(self.file_sizes[k]) = 1}}

\* C6 as stated: the file of a bucket of one record is never fingerprinted
\* during the call, in run() and in run_for_file() alike.
C6_SingletonNeverHashed ==
    Returned => \A p \in Singletons : hashed[p] = 0

\* C6: the file of a bucket of one record is never fingerprinted during the
\* call, except the target of run_for_file(), which FindFile::new fingerprints
\* once before the walk.
C6_SingletonHashedOnlyAsTarget ==
    Returned =>
        \A p \in Singletons :
            hashed[p] = IF op = "run_for_file" /\ p = target THEN 1 ELSE 0

\* run() returned a group and left a bucket of one record
C6_Witness ==
    /\ RunReturned
    /\ Singletons # {}
    /\ ret.map # EmptyMap

\* the fingerprint or the metadata of the path cannot be obtained
TargetFails(path) ==
    \/ path \notin Files
    \/ fault = [kind |-> "unreadable", at |-> path]
    \/ fault = [kind |-> "nometa", at |-> path]

\* C7: run_for_file on a path whose fingerprint or metadata cannot be had
\* returns the error from Idle, without a walk: nothing listed, nothing
\* added to the visited set, nothing indexed.
C7_FailingTargetIsAnError ==
    (op = "run_for_file" /\ TargetFails(target)) =>
        /\ pc = "idle"
        /\ ret.kind = "err"
        /\ self.checked_directories = {}
        /\ \A d \in Dirs : listed[d] = 0
        /\ \A f \in Files : indexed[f] = 0
        /\ \A sz \in DOMAIN self.file_sizes :
              \A i \in 1..Len(self.file_sizes[sz]) :
                  self.file_sizes[sz][i].path # target

\* run_for_file failed on an existing file, on an engine that has roots
C7_Witness ==
    /\ op = "run_for_file"
    /\ ret.kind = "err"
    /\ target \in Files
    /\ self.directories # <<>>

\* the walked files other than the target that have the target's bytes
Peers ==
    IF target \in Files
    THEN {f \in VisitedFiles \ {target} : content[f] = content[target]}
    ELSE {}

\* C8: run_for_file on a readable target with no same-content peer in the
\* walked directories returns "no duplicate".
C8_NoPeerNoDuplicate ==
    (pc = "idle" /\ op = "run_for_file" /\ ~TargetFails(target) /\ Peers = {})
        => ret.kind = "nodup"

\* the target lies in a walked directory and two other files of its size
\* duplicate each other
C8_Witness ==
    /\ ForFileReturned
    /\ Peers = {}
    /\ DirOf(target) \in self.checked_directories
    /\ dupes # EmptyMap

\* C9: a group returned by run_for_file holds the queried path, and its hash
\* is the target's digest.
C9_GroupHoldsTheTarget ==
    (pc = "idle" /\ ret.kind = "some") =>
        /\ target \in SeqSet(ret.group[1].files)
        /\ ret.group[1].hash = Digest(target)

\* run_for_file returned a group for a target outside the walked directories
C9_Witness ==
    /\ pc = "idle" /\ ret.kind = "some"
    /\ DirOf(target) \notin self.checked_directories
    /\ Len(ret.group[1].files) = 3

\* what C10 says of the result and of the index, for targets of the sizes at
\* least `least`
PeersAreReturned(least) ==
    /\ (ForFileReturned /\ ~failed /\ Size(target) >= least /\ Peers # {}) =>
          /\ ret.kind = "some"
          /\ Len(ret.group[1].files) = Cardinality(Peers) + 1
          /\ SeqSet(ret.group[1].files) = Peers \cup {target}
    /\ (op = "run_for_file" /\ target \in Files) =>
          \A f \in Files :
              indexed[f] > 0 => (Size(f) = Size(target) /\ f # target)

\* C10 as stated: with k >= 1 walked files of the target's size and content
\* and no failed read, run_for_file returns a group of exactly k+1 paths.
C10_PeersAreReturned == PeersAreReturned(0)

\* C10: the same for a target that is not empty; the target is not indexed
\* by the walk and no file of another size is.
C10_NonEmptyPeersAreReturned == PeersAreReturned(1)

\* two walked files match a target that lies in a walked directory itself
C10_Witness ==
    /\ ForFileReturned /\ ~failed
    /\ Cardinality(Peers) = 2
    /\ DirOf(target) \in self.checked_directories
    /\ \E f \in VisitedFiles : Size(f) \notin {0, Size(target)}


----------------------------------------------------------------------------
\* C11: a run() that directly follows a run() on the same engine returns the
\* same groups (same keys, sizes, path sets and path counts) as the first,
\* and leaves the same Size Index and the same candidate sizes.
C11_RunTwiceIsTheSame ==
    (RunReturned /\ prev.after = "run") =>
        /\ ResultSets(ret.map) = prev.result
        /\ IndexSets(self.file_sizes) = prev.sizes
        /\ self.duplicate_file_sizes = prev.candidates

\* the second of two run() calls returned a group of three paths again
C11_Witness ==
    /\ RunReturned /\ prev.after = "run"
    /\ \E h \in DOMAIN ret.map : Len(ret.map[h].files) = 3
    /\ \E h \in DOMAIN prev.result : prev.result[h].count = 3


----------------------------------------------------------------------------
\* the configured roots
Roots == SeqSet(self.directories)

\* two files directly under d1 are non-empty and equal
TopLevelDuplicates ==
    content["d1/a"] = content["d1/b"] /\ content["d1/a"] # <<>>

\* C12: a non-recursive run() lists and visits no directory that is not a
\* root, its visited set is exactly the roots when it returns, and no group
\* holds a file from outside the roots: over the root d1 whose own files
\* hold no duplicate it returns an empty map, whatever d1/d2 holds.  A
\* recursive run() over a root list with d1, with no failed read, lists
\* d1/d2 once and groups its two files when they are non-empty and equal.
C12_SubdirectoriesOnlyWhenRecursive ==
    /\ (op = "run" /\ ~self.follow_subdirs) =>
          \A d \in Dirs :
              (listed[d] > 0 \/ d \in self.checked_directories) => d \in Roots
    /\ (RunReturned /\ ~self.follow_subdirs) =>
          /\ self.checked_directories = Roots
          /\ \A group \in ReturnedGroups :
                \A p \in SeqSet(group.files) : DirOf(p) \in Roots
          /\ (Roots = {"d1"} /\ ~TopLevelDuplicates) => ret.map = EmptyMap
    /\ (RunReturned /\ self.follow_subdirs /\ "d1" \in Roots /\ ~failed) =>
          /\ "d1/d2" \in self.checked_directories
          /\ listed["d1/d2"] = 1
          /\ (content["d1/d2/c"] = content["d1/d2/e"]
                /\ content["d1/d2/c"] # <<>>) =>
                \E h \in DOMAIN ret.map :
                    {"d1/d2/c", "d1/d2/e"} \subseteq SeqSet(ret.map[h].files)

\* a non-recursive run() over d1 returned an empty map while the two files of
\* d1/d2 are non-empty and equal
C12_Witness ==
    /\ RunReturned /\ ~self.follow_subdirs
    /\ self.directories = <<"d1">>
    /\ content["d1/d2/c"] = content["d1/d2/e"]
    /\ content["d1/d2/c"] # <<>>
    /\ ret.map = EmptyMap
    /\ self.checked_directories = {"d1"}


----------------------------------------------------------------------------
\* the files among F with the size and digest of f
ClassIn(F, f) == {g \in F : Size(g) = Size(f) /\ Digest(g) = Digest(f)}

\* the non-empty files among F that have a duplicate among F
DuplicatedIn(F) == {f \in F : Size(f) > 0 /\ Cardinality(ClassIn(F, f)) >= 2}

\* the map run() returned is the one of a walk that found exactly the files F
RunResultOver(F) ==
    /\ DOMAIN ret.map = {Digest(f) : f \in DuplicatedIn(F)}
    /\ \A f \in DuplicatedIn(F) :
          LET group == ret.map[Digest(f)]
          IN /\ group.size = Size(f)
             /\ group.hash = Digest(f)
             /\ SeqSet(group.files) = ClassIn(F, f)
             /\ Len(group.files) = Cardinality(ClassIn(F, f))

\* what run_for_file returned is the answer of a walk that found exactly F
ForFileResultOver(F) ==
    LET peers == {f \in F \ {target} : content[f] = content[target]}
    IN IF Size(target) > 0 /\ peers # {}
       THEN /\ ret.kind = "some"
            /\ ret.group[1].size = Size(target)
            /\ ret.group[1].hash = Digest(target)
            /\ SeqSet(ret.group[1].files) = peers \cup {target}
            /\ Len(ret.group[1].files) = Cardinality(peers) + 1
       ELSE ret.kind = "nodup"

\* the call that is in progress or has returned is one that walks
Walking == op = "run" \/ (op = "run_for_file" /\ ~TargetFails(target))

\* the files of the visited directories other than the one that is unlistable
ListedFiles == {f \in VisitedFiles : DirOf(f) # fault.at}

\* C13: when the listing of a directory fails, the call still returns a
\* result and no error; the directory is in the visited set, was listed at
\* most once and none of its entries is indexed; every root is visited, and
\* d1/d2 too in a recursive call that lists d1; every other visited
\* directory was listed once; and the result is the one of a walk over the
\* files of the other visited directories.
C13_FailedListingIsSkipped ==
    (fault.kind = "unlistable" /\ Walking) =>
        /\ listed[fault.at] <= 1
        /\ listed[fault.at] = 1 => fault.at \in self.checked_directories
        /\ \A f \in Entries(fault.at) : indexed[f] = 0
        /\ pc = "idle" =>
              /\ Returned
              /\ Roots \subseteq self.checked_directories
              /\ (self.follow_subdirs /\ "d1" \in Roots /\ fault.at # "d1")
                    => "d1/d2" \in self.checked_directories
              /\ \A d \in self.checked_directories : listed[d] = 1
              /\ RunReturned => RunResultOver(ListedFiles)
              /\ ForFileReturned => ForFileResultOver(ListedFiles)

\* run() returned the group of the two files of d1 after the listing of
\* d1/d2, the first of its roots, had failed
C13_Witness ==
    /\ RunReturned
    /\ fault = [kind |-> "unlistable", at |-> "d1/d2"]
    /\ self.directories = <<"d1/d2", "d1">>
    /\ listed["d1/d2"] = 1
    /\ \E h \in DOMAIN ret.map : SeqSet(ret.map[h].files) = {"d1/a", "d1/b"}


----------------------------------------------------------------------------
\* the files of the visited directories other than the one that is unreadable
ReadableFiles == {f \in VisitedFiles : f # fault.at}

\* C14: when the fingerprint of one file cannot be computed, every call that
\* walks returns a result and no error, the file is in no returned group,
\* and the result is the one of a walk that did not find the file: the other
\* records of its bucket are grouped as they would be without it.
C14_FailedHashExcludesOneRecord ==
    (fault.kind = "unreadable" /\ Walking /\ pc = "idle") =>
        /\ Returned
        /\ \A group \in ReturnedGroups : fault.at \notin SeqSet(group.files)
        /\ RunReturned => RunResultOver(ReadableFiles)
        /\ ForFileReturned => ForFileResultOver(ReadableFiles)

\* run() returned a group of the second and third record of a bucket whose
\* first record could not be fingerprinted
C14_Witness ==
    /\ RunReturned
    /\ fault.kind = "unreadable"
    /\ hashed[fault.at] = 1
    /\ \E k \in DOMAIN self.file_sizes :
          LET paths == self.file_sizes[k]
          IN /\ Len(paths) = 3
             /\ paths[1].path = fault.at
             /\ \E h \in DOMAIN ret.map :
                   ret.map[h].files = <<paths[2].path, paths[3].path>>


----------------------------------------------------------------------------
\* C15: the Size Index never has the key 0 and never holds a record of
\* size 0, the record seeded for the target of run_for_file included.
C15_NoEmptyRecordInIndex ==
    /\ 0 \notin DOMAIN self.file_sizes
    /\ \A k \in DOMAIN self.file_sizes :
          \A i \in 1..Len(self.file_sizes[k]) :
              /\ self.file_sizes[k][i].len # 0
              /\ Size(self.file_sizes[k][i].path) # 0


----------------------------------------------------------------------------
\* a call has done its reset and seeding, and its walk has not begun
WalkBegins ==
    /\ pc = "walk"
    /\ check_dirs = self.directories
    /\ next_directories = <<>>
    /\ \A d \in Dirs : listed[d] = 0

\* C16: when the walk of a call begins, the visited set and the candidate
\* sizes are empty; in run() the Size Index is empty and no target is set;
\* in run_for_file() the Size Index holds the record of the target and
\* nothing else.
C16_EveryCallResets ==
    WalkBegins =>
        /\ self.checked_directories = {}
        /\ self.duplicate_file_sizes = {}
        /\ op = "run" =>
              /\ self.file_sizes = EmptyMap
              /\ self.find_file = None
        /\ op = "run_for_file" =>
              /\ self.find_file # None
              /\ self.find_file[1].data.path = target
              /\ self.file_sizes =
                    Put(EmptyMap, self.find_file[1].data.size,
                        <<self.find_file[1].data>>)


----------------------------------------------------------------------------
\* the paths of the records of the size bucket k
BucketPaths(k) ==
    {self.file_sizes[k][i].path : i \in 1..Len(self.file_sizes[k])}

\* C17: whatever digests the fingerprinter gives, every group that the
\* resolution has built so far, and every group a call returns, has all its
\* members in one size bucket, the bucket of the size the group records.
C17_GroupWithinOneBucket ==
    \A group \in Range(dupes) \cup ReturnedGroups :
        /\ group.size \in DOMAIN self.file_sizes
        /\ SeqSet(group.files) \subseteq BucketPaths(group.size)


----------------------------------------------------------------------------
\* C18: in every state, during a walk and between calls, the candidate
\* sizes are exactly the keys of the Size Index whose list has two or more
\* records; no list of the Size Index is empty.
C18_CandidatesAreTheSharedSizes ==
    /\ self.duplicate_file_sizes =
          {k \in DOMAIN self.file_sizes : Len(self.file_sizes[k]) >= 2}
    /\ \A k \in DOMAIN self.file_sizes : Len(self.file_sizes[k]) >= 1

\* in the middle of a listing, one size has two records and is a candidate
\* while another has one record and is not
C18_Witness ==
    /\ pc = "list"
    /\ pending # {}
    /\ \E k \in self.duplicate_file_sizes : Len(self.file_sizes[k]) = 2
    /\ \E k \in DOMAIN self.file_sizes :
          Len(self.file_sizes[k]) = 1 /\ k \notin self.duplicate_file_sizes


----------------------------------------------------------------------------
\* the discovered files of the group's size and digest whose fingerprint can
\* be computed, in the order the walk discovered them
DiscoveredOf(group) ==
    LET member(p) == /\ Size(p) = group.size
                     /\ generate_file_hash(p).ok
                     /\ generate_file_hash(p).hash = group.hash
    IN SelectSeq(discovered, member)

\* C19: the paths of a group run() returns are the files of its size and
\* digest in the order the walk discovered them; the paths of the group
\* run_for_file returns are the target followed by the discovered files of
\* its size and digest, in that order.
C19_GroupInDiscoveryOrder ==
    /\ RunReturned =>
          \A h \in DOMAIN ret.map : ret.map[h].files = DiscoveredOf(ret.map[h])
    /\ (pc = "idle" /\ ret.kind = "some") =>
          ret.group[1].files = <<target>> \o DiscoveredOf(ret.group[1])

\* run() returned a group of the first, third and fourth file it discovered
C19_Witness ==
    /\ RunReturned
    /\ Len(discovered) = 4
    /\ \E h \in DOMAIN ret.map :
          ret.map[h].files = <<discovered[1], discovered[3], discovered[4]>>


----------------------------------------------------------------------------
(* run() as a function of the engine it is called on: the same steps as the
   actions above, taken in one order of the entries and of the buckets. *)

\* build_directory_contents over the entries left: the engine and the subdirs
RECURSIVE build_directory_contents(_, _, _)
build_directory_contents(s, entries, subs) ==
    IF entries = {} THEN [engine |-> s, subdirs |-> subs]
    ELSE LET entry == CHOOSE e \in entries : TRUE
             got == DirDataNew(entry)
         IN IF ~got.ok
            THEN build_directory_contents(s, entries \ {entry}, subs)
            ELSE build_directory_contents(
                    IF should_insert_size(s, got.data)
                    THEN insert_size(s, got.data) ELSE s,
                    entries \ {entry},
                    pushed_subdirs(s, got.data, subs))

\* build_directories from the worklist check and the next wave collected
RECURSIVE build_directories(_, _, _)
build_directories(s, check, next) ==
    IF check = <<>>
    THEN IF next = <<>> THEN s ELSE build_directories(s, next, <<>>)
    ELSE LET directory == Head(check)
         IN IF already_checked(s, directory)
            THEN build_directories(s, Tail(check), next)
            ELSE LET s2 == [s EXCEPT !.checked_directories = @ \cup {directory}]
                 IN IF ReadDirFails(directory)
                    THEN build_directories(s2, Tail(check), next)
                    ELSE LET got == build_directory_contents(
                                        s2, Entries(directory), <<>>)
                         IN build_directories(got.engine, Tail(check),
                                              next \o got.subdirs)

\* check_duplicates over the candidate sizes left
RECURSIVE check_duplicates(_, _, _)
check_duplicates(s, keys, results) ==
    IF keys = {} THEN results
    ELSE LET key == CHOOSE k \in keys : TRUE
         IN check_duplicates(
                s, keys \ {key},
                IF key \in DOMAIN s.file_sizes
                THEN check_path_duplicates(s, s.file_sizes[key], results)
                ELSE results)

\* run() on the engine s
run(s) ==
    LET walked == build_directories(initialize(s), s.directories, <<>>)
    IN check_duplicates(walked, walked.duplicate_file_sizes, EmptyMap)

\* run() on a freshly constructed engine with the roots and the recursion
\* flag of this one
FreshRun == run(NewDupeFinder(self.directories, self.follow_subdirs))

\* C20: the map run() returns, whatever calls came before on the engine,
\* has the groups (keys, sizes, path sets, path counts) of the map that
\* run() returns on a freshly constructed engine with the same roots and
\* recursion flag over the same filesystem.
C20_RunIsRunOnAFreshEngine ==
    RunReturned => ResultSets(ret.map) = ResultSets(FreshRun)

\* run() returned two groups on an engine whose call before was a
\* run_for_file that had returned a result
C20_Witness ==
    /\ RunReturned
    /\ prev.after = "run_for_file"
    /\ Cardinality(DOMAIN ret.map) = 2
    /\ self.directories # <<>>


----------------------------------------------------------------------------
\* the sum of the counts of the elements of S
RECURSIVE SumOver(_, _)
SumOver(count, S) ==
    IF S = {} THEN 0
    ELSE LET x == CHOOSE y \in S : TRUE
         IN count[x] + SumOver(count, S \ {x})

\* the directory listings this call has performed
Listings == SumOver(listed, Dirs)

\* the walk has emptied its worklist
WorklistEmpty ==
    pc = "resolve" /\ check_dirs = <<>> /\ next_directories = <<>>

\* C21: for every filesystem, root list, recursion flag and failing read, a
\* call that has begun eventually returns with the engine idle again, and
\* its walk ends only with its worklist empty; at every point the
\* call has performed no more listings than there are distinct directory
\* paths in its visited set, and no more than there are directories.
C21_EveryCallReturns ==
    /\ [](/\ Listings <= Cardinality(self.checked_directories)
          /\ Listings <= Cardinality(Dirs))
    /\ [][(pc \in {"walk", "list"} /\ pc' \notin {"walk", "list"})
            => WorklistEmpty']_vars
    /\ (pc # "idle") ~> (pc = "idle" /\ ret.kind # "none")

\* a recursive run() over the same root given twice returned after two
\* listings, one of its reads having failed
C21_Witness ==
    /\ RunReturned
    /\ failed
    /\ self.follow_subdirs
    /\ self.directories = <<"d1", "d1">>
    /\ Listings = 2

=============================================================================
